---- MODULE Spec2Model ----
(***************************************************************************)
(* FIX broker gateway of backtrader (backtrader/brokers/fixbroker.py).     *)
(*                                                                         *)
(* The caller thread runs buy/sell/cancel/getposition/get_notification/    *)
(* stop; the session thread runs FIXBroker.fix and, while the initiator is *)
(* started, the FIXApplication callbacks onLogon and fromApp.              *)
(*                                                                         *)
(* Prices are Python floats in the code; here they are exact rationals     *)
(* [n, d] with d > 0 in lowest terms, so that the averaging rule of        *)
(* update_position is computed, not assumed.                               *)
(*                                                                         *)
(* Specifications, all from Init over the same variables:                  *)
(*   Spec        every operation, each call and callback one step;         *)
(*   SpecFair    the run loop under weak fairness of fix's statements;     *)
(*   SpecThreads _submit and update_position statement by statement;       *)
(*   SpecAccount news messages and the account figure;                     *)
(*   SpecPoll    submits, execution reports and polls of the queue;        *)
(*   SpecLedger  fills of unequal size on the position ledger.             *)
(***************************************************************************)
EXTENDS Integers, Sequences, FiniteSets, TLC

\* ---- bounds of the model -------------------------------------------------
\* Orders constructed by _submit plus execution reports delivered to fromApp.
MaxEvents == 4

\* ---- values ----------------------------------------------------------------
None == "None"
SessionIDs == {"S1"}
Symbols == {"X"}
Prices == {10, 11}
Qtys == {50}
Sides == {"BUY", "SELL"}

\* Order status values set by this module (Order.Accepted, ...).
Submitted == "Submitted"
Accepted == "Accepted"
Completed == "Completed"
Rejected == "Rejected"
Canceled == "Canceled"
\* Order.Cancelled, the name FIXBroker.cancel compares with.
Cancelled == Canceled
Terminal == {Completed, Rejected, Canceled}

\* Exec types of an execution report (fix.ExecType_*, and the venue's 'P').
ExecType_PENDING_NEW == "PENDING_NEW"
ExecType_NEW == "NEW"
ExecType_FILL == "FILL"
ExecType_REJECTED == "REJECTED"
ExecType_CANCELED == "CANCELED"
ExecType_P == "P"
ExecTypes ==
    {ExecType_PENDING_NEW, ExecType_NEW, ExecType_FILL, ExecType_REJECTED,
     ExecType_CANCELED, ExecType_P}

\* Client order ids are readings of the clock, which starts at 1; 0 is an id
\* this gateway never generates.
ForeignId == 0

VARIABLES
    settings,     \* FIXBroker.settings: None or "set"
    app,          \* FIXBroker.app: None or "set"
    session_id,   \* FIXApplication.session_id
    done,         \* FIXBroker.done
    pc,           \* position of the session thread in FIXBroker.fix
    initiator,    \* the SocketInitiator of fix(): "none", "started", "stopped"
    orders,       \* FIXBroker.orders: order_id -> order object (index of objs)
    objs,         \* the FIXOrder objects, in order of construction
    positions,    \* FIXBroker.positions: symbol -> [size, price]
    queue,        \* FIXBroker.queue: order objects
    sent,         \* messages handed to fix.Session.sendToTarget
    clock,        \* current reading of datetime.utcnow()
    nmsgs,        \* execution reports delivered to fromApp so far
    last,         \* the caller's last buy/sell/cancel call and what it raised
    HardBuyingPowerLimit, \* FIXBroker.HardBuyingPowerLimit
    fill,         \* the fill update_position is in the middle of applying
    sub,          \* the order _submit is in the middle of submitting
    seen,         \* the position the caller read from its last getposition
    polled        \* what the caller's last get_notification returned

vars == <<settings, app, session_id, done, pc, initiator, orders, objs,
          positions, queue, sent, clock, nmsgs, last,
          HardBuyingPowerLimit, fill, sub, seen, polled>>

\* ---- rationals -------------------------------------------------------------
Abs(x) == IF x < 0 THEN -x ELSE x

RECURSIVE GCD(_, _)
GCD(a, b) == IF b = 0 THEN a ELSE GCD(b, a % b)

\* n/d in lowest terms with a positive denominator (d # 0).
Rat(n, d) ==
    LET g == GCD(Abs(n), Abs(d))
        s == IF d < 0 THEN -1 ELSE 1
    IN [n |-> (s * n) \div g, d |-> (s * d) \div g]

Float(i) == [n |-> i, d |-> 1]

\* The mean of the two prices, whatever the sizes.
Average_Unweighted(pprice, psize, price, size) ==
    Rat(pprice.n * price.d + price.n * pprice.d, 2 * pprice.d * price.d)

\* (pprice * psize + price * size) / (psize + size), psize + size # 0.
Average(pprice, psize, price, size) ==
    Rat(pprice.n * psize * price.d + price.n * size * pprice.d,
        pprice.d * price.d * (psize + size))

\* ---- the caller's last buy/sell/cancel call ---------------------------------------------------------
Call(op, raised) == [op |-> op, raised |-> raised]

\* ---- Position ledger -------------------------------------------------------
Position(size, price) == [size |-> size, price |-> price]

update_position(symbol, price, size) ==
    IF symbol \in DOMAIN positions
    THEN LET pos == positions[symbol] IN
         IF pos.size + size # 0
         THEN [size |-> pos.size + size,
               price |-> Average(pos.price, pos.size, price, size)]
         ELSE pos
    ELSE Position(size, price)

\* now.strftime("%Y-%m-%d_%H:%M:%S_%f"): every field of the reading down to
\* the microsecond is printed, so equal ids mean equal readings.
strftime(now) == now

\* Ids an inbound report or a cancelled order may carry: the foreign id and
\* the readings of the clock so far.
OrderIds == {ForeignId} \cup {strftime(now) : now \in 1..clock}

\* ---- dictionaries --------------------------------------------------------
EmptyDict == [k \in {} |-> None]

SetItem(dict, key, value) ==
    [k \in DOMAIN dict \cup {key} |-> IF k = key THEN value ELSE dict[k]]

\* ---- Python values an account field can hold ------------------------------
\* A value with its type: an int n, a float n/d, a str text, or None.
PyInt(i) == [type |-> "int", n |-> i, d |-> 1, text |-> <<>>]

PyFloat(r) == [type |-> "float", n |-> r.n, d |-> r.d, text |-> <<>>]

PyStr(t) == [type |-> "str", n |-> 0, d |-> 1, text |-> t]

PyNone == [type |-> "NoneType", n |-> 0, d |-> 1, text |-> <<>>]

\* bool(value), as "while not self.done" reads it.
Truthy(v) ==
    CASE v.type \in {"int", "float"} -> v.n # 0
      [] v.type = "str" -> v.text # <<>>
      [] OTHER -> FALSE

\* The digit a character stands for, -1 for any other character.
DigitValue(c) ==
    CASE c = "0" -> 0 [] c = "1" -> 1 [] c = "2" -> 2 [] c = "3" -> 3
      [] c = "4" -> 4 [] c = "5" -> 5 [] c = "6" -> 6 [] c = "7" -> 7
      [] c = "8" -> 8 [] c = "9" -> 9 [] OTHER -> -1

IsDigits(t) == \A i \in 1..Len(t) : DigitValue(t[i]) >= 0

RECURSIVE ToInt(_)
ToInt(t) ==
    IF t = <<>> THEN 0
    ELSE 10 * ToInt(SubSeq(t, 1, Len(t) - 1)) + DigitValue(t[Len(t)])

RECURSIVE Pow10(_)
Pow10(k) == IF k = 0 THEN 1 ELSE 10 * Pow10(k - 1)

\* int(val) accepts a run of digits.
IntOk(t) == t # <<>> /\ IsDigits(t)

\* float(val) accepts digits with at most one point and at least one digit.
FloatOk(t) ==
    \/ IntOk(t)
    \/ \E k \in 1..Len(t) :
          /\ t[k] = "."
          /\ IsDigits(SubSeq(t, 1, k - 1))
          /\ IsDigits(SubSeq(t, k + 1, Len(t)))
          /\ Len(t) > 1

ToFloat(t) ==
    IF IntOk(t) THEN Float(ToInt(t))
    ELSE LET k == CHOOSE k \in 1..Len(t) : t[k] = "."
             frac == SubSeq(t, k + 1, Len(t))
         IN Rat(ToInt(SubSeq(t, 1, k - 1)) * Pow10(Len(frac)) + ToInt(frac),
                Pow10(Len(frac)))

\* for valtype in int, float, str: try val = valtype(val); the first that
\* does not raise ValueError wins.
Coerce(t) ==
    IF IntOk(t) THEN PyInt(ToInt(t))
    ELSE IF FloatOk(t) THEN PyFloat(ToFloat(t))
    ELSE PyStr(t)

\* ---- threads at rest -------------------------------------------------------
\* The session thread is not inside update_position.
NoFill ==
    [pc |-> "none", etype |-> None, order_id |-> ForeignId, symbol |-> None,
     price |-> Float(0), size |-> 0, was |-> Position(0, Float(0))]

\* The caller thread is not inside _submit.
NoSub == [pc |-> "none", order |-> 0]

\* get_notification's "return None", as an order index.
NoOrder == 0

\* The caller has not called get_notification yet.
NoCall == -1

\* ---- construction ----------------------------------------------------------
\* FIXBroker.__init__ has returned; the session thread has not run yet.
Init ==
    /\ settings = None
    /\ app = None
    /\ session_id = None
    /\ done = FALSE
    /\ pc = "l296"
    /\ initiator = "none"
    /\ orders = EmptyDict
    /\ objs = <<>>
    /\ positions = EmptyDict
    /\ queue = <<>>
    /\ sent = <<>>
    /\ clock = 1
    /\ nmsgs = 0
    /\ last = Call("__init__", None)
    /\ HardBuyingPowerLimit = PyInt(0)
    /\ fill = NoFill
    /\ sub = NoSub
    /\ seen = Position(0, Float(0))
    /\ polled = NoCall

\* ---- the session thread: FIXBroker.fix -------------------------------------
fix_settings ==
    /\ pc = "l296"
    /\ settings' = "set"
    /\ pc' = "l299"
    /\ UNCHANGED <<app, session_id, done, initiator, orders, objs, positions,
                   queue, sent, clock, nmsgs, last>>
    /\ UNCHANGED <<HardBuyingPowerLimit, fill, sub, seen, polled>>

\* FIXApplication(self): FIXApplication.__init__ sets session_id = None.
fix_app ==
    /\ pc = "l299"
    /\ app' = "set"
    /\ session_id' = None
    /\ pc' = "l300"
    /\ UNCHANGED <<settings, done, initiator, orders, objs, positions, queue,
                   sent, clock, nmsgs, last>>
    /\ UNCHANGED <<HardBuyingPowerLimit, fill, sub, seen, polled>>

fix_start ==
    /\ pc = "l300"
    /\ initiator' = "started"
    /\ pc' = "l302"
    /\ UNCHANGED <<settings, app, session_id, done, orders, objs, positions,
                   queue, sent, clock, nmsgs, last>>
    /\ UNCHANGED <<HardBuyingPowerLimit, fill, sub, seen, polled>>

\* fix with its loop left on any poll, whatever self.done holds.
fix_stop_Early ==
    /\ pc = "l302"
    /\ initiator' = "stopped"
    /\ pc' = "end"
    /\ UNCHANGED <<settings, app, session_id, done, orders, objs, positions,
                   queue, sent, clock, nmsgs, last>>
    /\ UNCHANGED <<HardBuyingPowerLimit, fill, sub, seen, polled>>

\* while not self.done: sleep(1) -- once done is read True the loop is left,
\* initiator.stop() is called and fix returns; the initiator and its sessions
\* go away with it.
fix_stop ==
    /\ pc = "l302"
    /\ done
    /\ initiator' = "stopped"
    /\ pc' = "end"
    /\ UNCHANGED <<settings, app, session_id, done, orders, objs, positions,
                   queue, sent, clock, nmsgs, last>>
    /\ UNCHANGED <<HardBuyingPowerLimit, fill, sub, seen, polled>>

\* ---- FIXApplication callbacks, run by the started initiator ----------------
onLogon(arg0) ==
    /\ initiator = "started"
    /\ session_id' = arg0
    /\ UNCHANGED <<settings, app, done, pc, initiator, orders, objs, positions,
                   queue, sent, clock, nmsgs, last>>
    /\ UNCHANGED <<HardBuyingPowerLimit, fill, sub, seen, polled>>

\* FIXBroker.notify: self.queue.put(order)
notify(q, order) == Append(q, order)

SetStatus(os, order, status) == [os EXCEPT ![order].status = status]

\* OrderBase.execute as called by the Fill branch: one more execution is
\* recorded on the order (size is never 0 here, so the hook does not return early).
execute(os, order, size, price, psize, pprice) ==
    [os EXCEPT ![order].executed = @ + 1]

\* size = get_value(message, fix.OrderQty()); if side == fix.Side_SELL: size = -size
Signed(side, qty) == IF side = "SELL" THEN -qty ELSE qty

\* fromApp for an ExecutionReport with the given ExecType, ClOrdID, Symbol,
\* Side, Price and OrderQty/CumQty.
fromApp(etype, order_id, symbol, side, price, qty) ==
    /\ initiator = "started"
    /\ session_id # None
    /\ Len(objs) + nmsgs < MaxEvents
    /\ nmsgs' = nmsgs + 1
    /\ LET size == Signed(side, qty)
           known == order_id \in DOMAIN orders
       IN
       CASE etype \in {ExecType_PENDING_NEW, ExecType_NEW} ->
              /\ objs' = IF known THEN SetStatus(objs, orders[order_id], Accepted) ELSE objs
              /\ queue' = IF known THEN notify(queue, orders[order_id]) ELSE queue
              /\ UNCHANGED positions
         [] etype = ExecType_FILL ->
              LET pos == update_position(symbol, Float(price), size) IN
              /\ positions' = SetItem(positions, symbol, pos)
              /\ objs' = IF known
                         THEN execute(SetStatus(objs, orders[order_id], Completed),
                                      orders[order_id], size, Float(price),
                                      pos.size, pos.price)
                         ELSE objs
              /\ UNCHANGED queue
         [] etype = ExecType_REJECTED ->
              /\ objs' = IF known THEN SetStatus(objs, orders[order_id], Rejected) ELSE objs
              /\ queue' = IF known THEN notify(queue, orders[order_id]) ELSE queue
              /\ UNCHANGED positions
         [] etype = ExecType_CANCELED ->
              /\ objs' = IF known THEN SetStatus(objs, orders[order_id], Canceled) ELSE objs
              /\ queue' = IF known THEN notify(queue, orders[order_id]) ELSE queue
              /\ UNCHANGED positions
         [] etype = ExecType_P ->
              /\ positions' = SetItem(positions, symbol,
                                      update_position(symbol, Float(price), size))
              /\ UNCHANGED <<objs, queue>>
         [] OTHER ->
              UNCHANGED <<objs, queue, positions>>
    /\ UNCHANGED <<settings, app, session_id, done, pc, initiator, orders, sent, clock, last>>
    /\ UNCHANGED <<HardBuyingPowerLimit, fill, sub, seen, polled>>

\* ---- outbound messages -----------------------------------------------------
\* Attributes a FIXApplication object has (set by FIXApplication.__init__).
AppAttrs == {"broker", "session_id"}

\* fix.Session.sendToTarget(msg, sessionID): a session handle is required, and
\* it must name a session of a live initiator.
sendToTarget(msg, sessionID) ==
    IF sessionID = None
    THEN [raised |-> "TypeError", sent |-> sent]
    ELSE IF initiator # "started"
    THEN [raised |-> "SessionNotFound", sent |-> sent]
    ELSE [raised |-> None,
          sent |-> Append(sent, [type |-> msg.type, ClOrdID |-> msg.ClOrdID,
                                 session |-> sessionID])]

\* FIXOrder.submit_fix: sendToTarget(self.msg, app.session_id)
submit_fix(order_id) ==
    IF app = None \/ "session_id" \notin AppAttrs
    THEN [raised |-> "AttributeError", sent |-> sent]
    ELSE sendToTarget([type |-> "NewOrderSingle", ClOrdID |-> order_id], session_id)

\* FIXOrder.cancel_fix: sendToTarget(msg, app.sessionID)
cancel_fix(order_id) ==
    IF app = None \/ "sessionID" \notin AppAttrs
    THEN [raised |-> "AttributeError", sent |-> sent]
    ELSE sendToTarget([type |-> "OrderCancelRequest", ClOrdID |-> order_id], session_id)

\* ---- the caller thread ------------------------------------------------------
\* Status of a freshly constructed order.
InitialStatus == Submitted

\* The fields of a FIXOrder that the gateway reads or writes after construction:
\* its id, its status and the executions recorded by execute (their number).
FIXOrder(action, data, size, now) ==
    [order_id |-> strftime(now), status |-> InitialStatus, executed |-> 0]

_submit(action, data, size) ==
    /\ Len(objs) + nmsgs < MaxEvents
    /\ IF settings = None
       THEN \* FIXOrder.__init__: self.settings.get() on None
            /\ last' = Call("_submit", "AttributeError")
            /\ UNCHANGED <<orders, objs, queue, sent>>
       ELSE LET new == FIXOrder(action, data, size, clock)
                order == Len(objs) + 1
                r == submit_fix(new.order_id)
            IN IF r.raised # None
               THEN /\ last' = Call("_submit", r.raised)
                    /\ UNCHANGED <<orders, objs, queue, sent>>
               ELSE /\ sent' = r.sent
                    /\ objs' = Append(objs, new)
                    /\ orders' = SetItem(orders, new.order_id, order)
                    /\ queue' = notify(queue, order)
                    /\ last' = Call("_submit", None)
    /\ UNCHANGED <<settings, app, session_id, done, pc, initiator, positions,
                   clock, nmsgs>>
    /\ UNCHANGED <<HardBuyingPowerLimit, fill, sub, seen, polled>>

buy(data, size) == _submit("BUY", data, size)

sell(data, size) == _submit("SELL", data, size)

\* Truth value of the builtin function ord, which "if not ord" tests.
ord == TRUE

\* cancel with the already-cancelled test comparing with the wrong status.
cancel_WrongStatus(order_id) ==
    /\ LET _order == IF order_id \in DOMAIN orders THEN orders[order_id] ELSE 0
       IN IF ~ord
          THEN /\ last' = Call("cancel", None)
               /\ UNCHANGED sent
          ELSE IF _order = 0
          THEN /\ last' = Call("cancel", "AttributeError")
               /\ UNCHANGED sent
          ELSE IF objs[_order].status = Completed
          THEN /\ last' = Call("cancel", None)
               /\ UNCHANGED sent
          ELSE LET r == cancel_fix(objs[_order].order_id) IN
               /\ last' = Call("cancel", r.raised)
               /\ sent' = r.sent
    /\ UNCHANGED <<settings, app, session_id, done, pc, initiator, orders, objs,
                   positions, queue, clock, nmsgs>>
    /\ UNCHANGED <<HardBuyingPowerLimit, fill, sub, seen, polled>>

\* cancel(order): only order.order_id of the argument is read.
cancel(order_id) ==
    /\ LET _order == IF order_id \in DOMAIN orders THEN orders[order_id] ELSE 0
       IN IF ~ord
          THEN /\ last' = Call("cancel", None)
               /\ UNCHANGED sent
          ELSE IF _order = 0
          THEN \* _order is None: _order.status
               /\ last' = Call("cancel", "AttributeError")
               /\ UNCHANGED sent
          ELSE IF objs[_order].status = Cancelled
          THEN /\ last' = Call("cancel", None)
               /\ UNCHANGED sent
          ELSE LET r == cancel_fix(objs[_order].order_id) IN
               /\ last' = Call("cancel", r.raised)
               /\ sent' = r.sent
    /\ UNCHANGED <<settings, app, session_id, done, pc, initiator, orders, objs,
                   positions, queue, clock, nmsgs>>
    /\ UNCHANGED <<HardBuyingPowerLimit, fill, sub, seen, polled>>

\* self.positions is a defaultdict(Position): a missing symbol is inserted flat.
getposition(symbol) ==
    /\ positions' = IF symbol \in DOMAIN positions
                    THEN positions
                    ELSE SetItem(positions, symbol, Position(0, Float(0)))
    /\ UNCHANGED <<settings, app, session_id, done, pc, initiator, orders, objs,
                   queue, sent, clock, nmsgs, last>>
    /\ UNCHANGED <<HardBuyingPowerLimit, fill, sub, polled>>

\* self.queue.get(False); queue.Empty is swallowed and None returned.
get_notification ==
    /\ queue' = IF queue = <<>> THEN queue ELSE Tail(queue)
    /\ UNCHANGED <<settings, app, session_id, done, pc, initiator, orders, objs,
                   positions, sent, clock, nmsgs, last>>
    /\ UNCHANGED <<HardBuyingPowerLimit, fill, sub, seen>>

stop ==
    /\ done' = TRUE
    /\ UNCHANGED <<settings, app, session_id, pc, initiator, orders, objs,
                   positions, queue, sent, clock, nmsgs, last>>
    /\ UNCHANGED <<HardBuyingPowerLimit, fill, sub, seen, polled>>

\* Time passes: the next datetime.utcnow() returns a later reading. Readings no
\* order was constructed under are interchangeable, so the clock moves on only
\* from a reading that an order has used.
utcnow_advance ==
    /\ \E o \in 1..Len(objs) : objs[o].order_id = strftime(clock)
    /\ clock' = clock + 1
    /\ UNCHANGED <<settings, app, session_id, done, pc, initiator, orders, objs,
                   positions, queue, sent, nmsgs, last>>
    /\ UNCHANGED <<HardBuyingPowerLimit, fill, sub, seen, polled>>

Next ==
    \/ fix_settings
    \/ fix_app
    \/ fix_start
    \/ fix_stop
    \/ \E s \in SessionIDs : onLogon(s)
    \/ \E etype \in ExecTypes, order_id \in OrderIds, symbol \in Symbols,
          side \in Sides, price \in Prices, qty \in Qtys :
          fromApp(etype, order_id, symbol, side, price, qty)
    \/ \E data \in Symbols, size \in Qtys : buy(data, size)
    \/ \E data \in Symbols, size \in Qtys : sell(data, size)
    \/ \E order_id \in OrderIds : cancel(order_id)
    \/ \E symbol \in Symbols : getposition(symbol) /\ UNCHANGED seen
    \/ get_notification /\ UNCHANGED polled
    \/ stop
    \/ utcnow_advance

Spec == Init /\ [][Next]_vars

\* The life of the run loop: every operation but the position lookup, with the
\* clock standing still.
NextRun ==
    \/ fix_settings
    \/ fix_app
    \/ fix_start
    \/ fix_stop
    \/ \E s \in SessionIDs : onLogon(s)
    \/ \E etype \in ExecTypes, order_id \in OrderIds, symbol \in Symbols,
          side \in Sides, price \in Prices, qty \in Qtys :
          fromApp(etype, order_id, symbol, side, price, qty)
    \/ \E data \in Symbols, size \in Qtys : buy(data, size)
    \/ \E data \in Symbols, size \in Qtys : sell(data, size)
    \/ \E order_id \in OrderIds : cancel(order_id)
    \/ get_notification /\ UNCHANGED polled
    \/ stop

\* fix runs on its own thread, started by FIXBroker.__init__: each of its
\* statements is eventually executed once it can be.
SpecFair ==
    /\ Init /\ [][NextRun]_vars
    /\ WF_vars(fix_settings)
    /\ WF_vars(fix_app)
    /\ WF_vars(fix_start)
    /\ WF_vars(fix_stop)


\* ---- statement-level interleaving of the caller and the session thread ------
\* update_position assigns in place when the ledger holds the symbol and the
\* resulting size is non-zero: pos is the ledger's own Position object.
InPlace(symbol, size) ==
    /\ symbol \in DOMAIN positions
    /\ positions[symbol].size + size # 0

\* fromApp for a FILL or 'P' report up to and including line 166:
\* pos.price = (pos.price * pos.size + price * size) / (pos.size + size)
update_position_l166(etype, order_id, symbol, side, price, qty) ==
    /\ initiator = "started"
    /\ session_id # None
    /\ fill = NoFill
    /\ etype \in {ExecType_FILL, ExecType_P}
    /\ InPlace(symbol, Signed(side, qty))
    /\ Len(objs) + nmsgs < MaxEvents
    /\ nmsgs' = nmsgs + 1
    /\ positions' = [positions EXCEPT ![symbol].price =
                        Average(@, positions[symbol].size, Float(price),
                                Signed(side, qty))]
    /\ fill' = [pc |-> "l167", etype |-> etype, order_id |-> order_id,
                symbol |-> symbol, price |-> Float(price),
                size |-> Signed(side, qty), was |-> positions[symbol]]
    /\ UNCHANGED <<settings, app, session_id, done, pc, initiator, orders, objs,
                   queue, sent, clock, last>>
    /\ UNCHANGED <<HardBuyingPowerLimit, sub, seen, polled>>

\* Line 167, pos.size += size, and the rest of the handler (lines 224-231).
update_position_l167 ==
    /\ fill.pc = "l167"
    /\ positions' = [positions EXCEPT ![fill.symbol].size = @ + fill.size]
    /\ objs' = IF fill.etype = ExecType_FILL /\ fill.order_id \in DOMAIN orders
               THEN execute(SetStatus(objs, orders[fill.order_id], Completed),
                            orders[fill.order_id], fill.size, fill.price,
                            positions'[fill.symbol].size,
                            positions'[fill.symbol].price)
               ELSE objs
    /\ fill' = NoFill
    /\ UNCHANGED <<settings, app, session_id, done, pc, initiator, orders,
                   queue, sent, clock, nmsgs, last>>
    /\ UNCHANGED <<HardBuyingPowerLimit, sub, seen, polled>>

\* _submit up to and including line 339: the order is constructed and its
\* NewOrderSingle handed to the session; the registry does not hold it yet.
_submit_l339(action, data, size) ==
    /\ sub = NoSub
    /\ Len(objs) + nmsgs < MaxEvents
    /\ IF settings = None
       THEN /\ last' = Call("_submit", "AttributeError")
            /\ UNCHANGED <<objs, sent, sub>>
       ELSE LET new == FIXOrder(action, data, size, clock)
                r == submit_fix(new.order_id)
            IN IF r.raised # None
               THEN /\ last' = Call("_submit", r.raised)
                    /\ UNCHANGED <<objs, sent, sub>>
               ELSE /\ sent' = r.sent
                    /\ objs' = Append(objs, new)
                    /\ sub' = [pc |-> "l340", order |-> Len(objs) + 1]
                    /\ UNCHANGED last
    /\ UNCHANGED <<settings, app, session_id, done, pc, initiator, orders,
                   positions, queue, clock, nmsgs>>
    /\ UNCHANGED <<HardBuyingPowerLimit, fill, seen, polled>>

\* Line 340: self.orders[order.order_id] = order
_submit_l340 ==
    /\ sub.pc = "l340"
    /\ orders' = SetItem(orders, objs[sub.order].order_id, sub.order)
    /\ sub' = [sub EXCEPT !.pc = "l341"]
    /\ UNCHANGED <<settings, app, session_id, done, pc, initiator, objs,
                   positions, queue, sent, clock, nmsgs, last>>
    /\ UNCHANGED <<HardBuyingPowerLimit, fill, seen, polled>>

\* Lines 341-343: self.notify(order); return order
_submit_l341 ==
    /\ sub.pc = "l341"
    /\ queue' = notify(queue, sub.order)
    /\ sub' = NoSub
    /\ last' = Call("_submit", None)
    /\ UNCHANGED <<settings, app, session_id, done, pc, initiator, orders, objs,
                   positions, sent, clock, nmsgs>>
    /\ UNCHANGED <<HardBuyingPowerLimit, fill, seen, polled>>

\* The caller reads the fields of the Position object getposition returned.
read_position(symbol) ==
    /\ getposition(symbol)
    /\ seen' = positions'[symbol]

\* get_notification returning the order last submitted when the queue is empty.
get_notification_return_Last == IF queue = <<>> THEN Len(objs) ELSE Head(queue)

\* What get_notification returns: the head of the queue, or None.
get_notification_return == IF queue = <<>> THEN NoOrder ELSE Head(queue)

\* The caller polls and keeps what get_notification returned.
poll ==
    /\ get_notification
    /\ polled' = get_notification_return

\* The session thread runs one callback at a time and the caller one call at a
\* time; statements of the two threads interleave freely. The caller submits
\* and reads positions while the initiator runs.
NextThreads ==
    \/ fix_settings
    \/ fix_app
    \/ fix_start
    \/ \E s \in SessionIDs : fill = NoFill /\ onLogon(s)
    \/ \E etype \in ExecTypes, order_id \in OrderIds, symbol \in Symbols,
          side \in Sides, price \in Prices, qty \in Qtys :
          /\ fill = NoFill
          /\ ~(etype \in {ExecType_FILL, ExecType_P}
               /\ InPlace(symbol, Signed(side, qty)))
          /\ fromApp(etype, order_id, symbol, side, price, qty)
    \/ \E etype \in ExecTypes, order_id \in OrderIds, symbol \in Symbols,
          side \in Sides, price \in Prices, qty \in Qtys :
          update_position_l166(etype, order_id, symbol, side, price, qty)
    \/ update_position_l167
    \/ \E action \in Sides, data \in Symbols, size \in Qtys :
          _submit_l339(action, data, size)
    \/ _submit_l340
    \/ _submit_l341
    \/ \E symbol \in Symbols : sub = NoSub /\ read_position(symbol)
    \/ utcnow_advance

SpecThreads == Init /\ [][NextThreads]_vars

\* ---- the account snapshot: news messages ------------------------------------
\* Account field names a news message may carry in tag 10008.
NewsNames == {"HardBuyingPowerLimit", "SoftBuyingPowerLimit", "done"}

\* Texts a news message may carry in tag 58, as their characters.
NewsValues == {<<"7">>, <<"9", "8", "7", "6", "5", ".", "4", "3">>, <<"a">>}

NewsPairs == NewsNames \X NewsValues

\* What each text of NewsValues coerces to, computed once.
Coerced == [t \in NewsValues |-> Coerce(t)]

\* A news message carries one pair or two, each a name and then its value.
NewsBodies ==
    {<<p>> : p \in NewsPairs} \cup {<<p, q>> : p \in NewsPairs, q \in NewsPairs}

\* message.toString().split('\x01'): the message type, then for every pair
\* the field 10008=name and the field 58=text.
RECURSIVE toString(_)
toString(body) ==
    IF Len(body) = 0
    THEN <<[code |-> "35", val |-> "B"]>>
    ELSE toString(SubSeq(body, 1, Len(body) - 1))
         \o <<[code |-> "10008", val |-> body[Len(body)][1]],
              [code |-> "58", val |-> body[Len(body)][2]]>>

\* The loop of lines 179-190 over the fields, building result.
RECURSIVE ParseNews(_, _)
ParseNews(items, result) ==
    IF items = <<>>
    THEN result
    ELSE LET item == Head(items)
             named == IF item.code = "10008"
                      THEN Append(result, [key |-> item.val, value |-> PyNone])
                      ELSE result
             valued == IF item.code = "58"
                       THEN [named EXCEPT ![Len(named)].value = Coerce(item.val)]
                       ELSE named
         IN ParseNews(Tail(items), valued)

\* The result list of every news message, computed once.
news_result == [body \in NewsBodies |-> ParseNews(toString(body), <<>>)]

\* Attributes of the FIXBroker object that the names of NewsNames hit.
BrokerAttrs == {"HardBuyingPowerLimit", "done"}

\* setattr(self.broker, key, value); of done only its truth is ever read.
setattr(broker, key, value) ==
    CASE key = "HardBuyingPowerLimit" -> [broker EXCEPT !.HardBuyingPowerLimit = value]
      [] key = "done" -> [broker EXCEPT !.done = Truthy(value)]

\* for key, value in result: if hasattr(self.broker, key): setattr(...)
RECURSIVE SetAttrs(_, _)
SetAttrs(result, broker) ==
    IF result = <<>>
    THEN broker
    ELSE LET key == Head(result).key
             value == Head(result).value
         IN SetAttrs(Tail(result),
                     IF key \in BrokerAttrs THEN setattr(broker, key, value)
                     ELSE broker)

\* fromApp for a message of type News.
fromApp_News(body) ==
    /\ initiator = "started"
    /\ session_id # None
    /\ UNCHANGED <<settings, app, session_id, pc, initiator, orders, objs,
                   positions, queue, sent, clock, nmsgs, last>>
    /\ UNCHANGED <<fill, sub, seen, polled>>
    /\ LET result == news_result[body]
           broker == SetAttrs(result,
                              [HardBuyingPowerLimit |-> HardBuyingPowerLimit,
                               done |-> done])
       IN /\ HardBuyingPowerLimit' = broker.HardBuyingPowerLimit
          /\ done' = broker.done

getcash == HardBuyingPowerLimit

\* getvalue returning the figure the broker was constructed with.
getvalue_Stale == PyInt(0)

getvalue == HardBuyingPowerLimit

\* The venue reports the account in news messages while the caller submits
\* and stops.
NextAccount ==
    \/ fix_settings
    \/ fix_app
    \/ fix_start
    \/ fix_stop
    \/ \E s \in SessionIDs : onLogon(s)
    \/ \E body \in NewsBodies : fromApp_News(body)
    \/ \E data \in Symbols, size \in Qtys : buy(data, size)
    \/ stop
    \/ utcnow_advance

SpecAccount == Init /\ [][NextAccount]_vars

\* ---- the engine's polling -----------------------------------------------------
\* The caller submits and polls while the session delivers execution reports.
NextPoll ==
    \/ fix_settings
    \/ fix_app
    \/ fix_start
    \/ \E s \in SessionIDs : onLogon(s)
    \/ \E etype \in ExecTypes, order_id \in OrderIds, symbol \in Symbols,
          side \in Sides, price \in Prices, qty \in Qtys :
          fromApp(etype, order_id, symbol, side, price, qty)
    \/ \E data \in Symbols, size \in Qtys : buy(data, size)
    \/ poll
    \/ utcnow_advance

SpecPoll == Init /\ [][NextPoll]_vars

\* ---- the position ledger under fills of unequal size ----------------------------
\* Quantities a fill or position snapshot may report.
LedgerQtys == {50, 100}

\* The venue reports fills and position snapshots for orders placed elsewhere;
\* the caller looks positions up.
NextLedger ==
    \/ fix_settings
    \/ fix_app
    \/ fix_start
    \/ \E s \in SessionIDs : onLogon(s)
    \/ \E etype \in {ExecType_FILL, ExecType_P}, symbol \in Symbols,
          side \in Sides, price \in Prices, qty \in LedgerQtys :
          fromApp(etype, ForeignId, symbol, side, price, qty)
    \/ \E symbol \in Symbols : getposition(symbol) /\ UNCHANGED seen

SpecLedger == Init /\ [][NextLedger]_vars

\* ---- properties --------------------------------------------------------------
\* An order object is registered when the registry maps its id to it.
Registered(o) ==
    /\ o \in 1..Len(objs)
    /\ objs[o].order_id \in DOMAIN orders
    /\ orders[objs[o].order_id] = o

\* Exec types of the transition table of the order state machine.
TableTypes ==
    {ExecType_PENDING_NEW, ExecType_NEW, ExecType_FILL, ExecType_REJECTED,
     ExecType_CANCELED}

\* C1: terminal order states are sinks -- once a registered order is Completed,
\* Rejected or Canceled, no step (so no later execution report of any exec
\* type for its id) changes its status.
C1_TerminalIsSink ==
    [][\A o \in 1..Len(objs) :
          (Registered(o) /\ objs[o].status \in Terminal)
              => objs'[o].status = objs[o].status]_vars

\* C2: an execution report of a transition-table exec type whose ClOrdID is not
\* in the order registry leaves the registry, the orders, the position ledger
\* and the notification queue unchanged.
C2_UnknownIdDropped ==
    [][\A etype \in TableTypes, order_id \in OrderIds, symbol \in Symbols,
          side \in Sides, price \in Prices, qty \in Qtys :
          (/\ order_id \notin DOMAIN orders
           /\ fromApp(etype, order_id, symbol, side, price, qty))
              => /\ orders' = orders
                 /\ objs' = objs
                 /\ positions' = positions
                 /\ queue' = queue]_vars

\* C3: every execution report of a transition-table exec type for a registered
\* order (Pending-New/New, Fill, Rejected, Canceled) enqueues that order once
\* on the notification queue.
C3_NotifyPerTransition ==
    [][\A etype \in TableTypes, order_id \in OrderIds, symbol \in Symbols,
          side \in Sides, price \in Prices, qty \in Qtys :
          (/\ order_id \in DOMAIN orders
           /\ fromApp(etype, order_id, symbol, side, price, qty))
              => queue' = Append(queue, orders[order_id])]_vars

\* C4: a fill whose signed size exactly offsets the nonzero position of its
\* symbol leaves that symbol with net size 0 and the average price it had.
C4_ExactOffsetFlattens ==
    [][\A etype \in {ExecType_FILL, ExecType_P}, order_id \in OrderIds,
          symbol \in Symbols, side \in Sides, price \in Prices, qty \in Qtys :
          (/\ symbol \in DOMAIN positions
           /\ positions[symbol].size # 0
           /\ positions[symbol].size + Signed(side, qty) = 0
           /\ fromApp(etype, order_id, symbol, side, price, qty))
              => positions'[symbol] =
                     [size |-> 0, price |-> positions[symbol].price]]_vars

\* C5: cancel of a registered order that is not Canceled sends exactly one
\* cancel request for it, addressed to the session handle recorded by logon,
\* and changes no order status and enqueues nothing.
C5_CancelSendsRequest ==
    [][\A order_id \in OrderIds :
          (/\ order_id \in DOMAIN orders
           /\ objs[orders[order_id]].status # Canceled
           /\ cancel(order_id))
              => /\ sent' = Append(sent, [type |-> "OrderCancelRequest",
                                          ClOrdID |-> order_id,
                                          session |-> session_id])
                 /\ session_id # None
                 /\ objs' = objs
                 /\ queue' = queue]_vars

\* C6: cancel of an order whose id is not in the registry returns normally
\* (raises nothing), sends nothing and leaves registry, ledger and queue alone.
C6_CancelUnknownIsNoop ==
    [][\A order_id \in OrderIds :
          (order_id \notin DOMAIN orders /\ cancel(order_id))
              => /\ last'.raised = None
                 /\ sent' = sent
                 /\ orders' = orders
                 /\ objs' = objs
                 /\ positions' = positions
                 /\ queue' = queue]_vars

\* C7: cancel of a registered order whose status is already Canceled is a
\* no-op -- it returns normally, no cancel request is sent, nothing is
\* enqueued and the order (every order) keeps its status.
C7_CancelCanceledIsNoop ==
    [][\A order_id \in OrderIds :
          (/\ order_id \in DOMAIN orders
           /\ objs[orders[order_id]].status = Canceled
           /\ cancel(order_id))
              => /\ last'.raised = None
                 /\ sent' = sent
                 /\ queue' = queue
                 /\ objs' = objs
                 /\ orders' = orders]_vars

\* A cancel call has returned normally and a registered order is Canceled.
C7_Witness ==
    /\ last = Call("cancel", None)
    /\ \E o \in 1..Len(objs) : Registered(o) /\ objs[o].status = Canceled

\* C8: when buy/sell returns, the new order is in the registry under its own
\* id, one NewOrderSingle for it has been handed to the session that logon
\* recorded, the order has been enqueued once, and no registry entry that was
\* there before has been removed or replaced (none but the new one is added).
C8_SubmitRegistersSendsNotifies ==
    [][\A action \in Sides, data \in Symbols, size \in Qtys :
          (_submit(action, data, size) /\ last'.raised = None)
              => LET order == Len(objs) + 1 IN
                 /\ Len(objs') = order
                 /\ \A o \in 1..Len(objs) : objs'[o] = objs[o]
                 /\ DOMAIN orders' = DOMAIN orders \cup {objs'[order].order_id}
                 /\ orders'[objs'[order].order_id] = order
                 /\ \A k \in DOMAIN orders : orders'[k] = orders[k]
                 /\ session_id # None
                 /\ sent' = Append(sent, [type |-> "NewOrderSingle",
                                          ClOrdID |-> objs'[order].order_id,
                                          session |-> session_id])
                 /\ queue' = Append(queue, order)]_vars

\* C9: buy/sell raises no error in any reachable state of the gateway.
C9_SubmitNeverRaises ==
    last.op = "_submit" => last.raised = None

\* C10: distinct orders have distinct client order ids, so after n submits the
\* registry holds n orders.
C10_DistinctIds ==
    /\ \A o1, o2 \in 1..Len(objs) :
           o1 # o2 => objs[o1].order_id # objs[o2].order_id
    /\ Cardinality(DOMAIN orders) = Len(objs)

\* C11: a getposition call interleaved with a fill being applied never observes
\* a torn position -- what the caller reads is the position before the fill or
\* the position after it, never the new average price with the old size.
C11_NoTornRead ==
    [][\A symbol \in Symbols :
          (read_position(symbol) /\ fill.pc = "l167" /\ fill.symbol = symbol)
          => seen' \in {fill.was,
                        Position(fill.was.size + fill.size,
                                 Average(fill.was.price, fill.was.size,
                                         fill.price, fill.size))}]_vars

C13_CashAndValueFollowNews ==
    /\ getcash = PyInt(0)
    /\ [](getcash = getvalue)
    /\ [][\A body \in NewsBodies :
             fromApp_News(body)
             => LET hits == {i \in 1..Len(body) : body[i][1] = "HardBuyingPowerLimit"}
                IN IF hits = {}
                   THEN getcash' = getcash /\ getvalue' = getvalue
                   ELSE LET i == CHOOSE i \in hits : \A j \in hits : j <= i
                        IN /\ getcash' = Coerced[body[i][2]]
                           /\ getvalue' = Coerced[body[i][2]]]_vars
    /\ [][(getcash' # getcash \/ getvalue' # getvalue)
          => \E body \in NewsBodies : fromApp_News(body)]_vars

\* A news message with the value text 98765.43 for HardBuyingPowerLimit has been
\* processed: both calls return the float 98765.43.
C13_Witness ==
    /\ getcash = PyFloat(Rat(9876543, 100))
    /\ getvalue = PyFloat(Rat(9876543, 100))

\* C14: get_notification on an empty queue returns None at once -- the call is
\* possible and raises nothing -- and leaves the queue, the order registry, the
\* orders and the position ledger as they were.
C14_PollEmptyReturnsNone ==
    [][(queue = <<>> /\ poll)
       => (/\ polled' = NoOrder
           /\ UNCHANGED <<queue, orders, objs, positions, last>>)]_vars

\* The caller polled an empty queue while the registry and the ledger held
\* entries, and got None.
C14_Witness ==
    /\ polled = NoOrder
    /\ queue = <<>>
    /\ orders # EmptyDict
    /\ positions # EmptyDict

\* C15: a fill follows the averaging rule -- for a symbol the ledger does not
\* hold the position becomes (signed size, price); for a position it holds,
\* when existing.size + signedSize is not zero, the new size is that sum and
\* the new price p satisfies
\* p * (existing.size + signedSize) = existing.price * existing.size + price * signedSize.
C15_AveragingRule ==
    [][\A etype \in {ExecType_FILL, ExecType_P}, symbol \in Symbols,
          side \in Sides, price \in Prices, qty \in LedgerQtys :
          fromApp(etype, ForeignId, symbol, side, price, qty)
          => LET signedSize == Signed(side, qty)
                 new == positions'[symbol]
             IN IF symbol \notin DOMAIN positions
                THEN new.size = signedSize /\ new.price = Float(price)
                ELSE LET existing == positions[symbol]
                         total == existing.size + signedSize
                     IN total # 0
                        => /\ new.size = total
                           /\ new.price.n * total * existing.price.d
                              = new.price.d * (existing.price.n * existing.size
                                               + price * signedSize * existing.price.d)]_vars

\* A position built from fills of unequal size at unequal prices: 50 at 10
\* and 100 at 11 make 150 at 32/3.
C15_Witness ==
    /\ "X" \in DOMAIN positions
    /\ positions["X"] = Position(150, Rat(32, 3))

\* C16: a fill that flips the net size through zero (existing.size and
\* existing.size + signedSize both non-zero, of opposite sign) leaves the
\* position at the remaining size with the incoming fill's price.
C16_FlipResetsPrice ==
    [][\A etype \in {ExecType_FILL, ExecType_P}, symbol \in Symbols,
          side \in Sides, price \in Prices, qty \in LedgerQtys :
          (/\ fromApp(etype, ForeignId, symbol, side, price, qty)
           /\ symbol \in DOMAIN positions
           /\ positions[symbol].size * (positions[symbol].size + Signed(side, qty)) < 0)
          => positions'[symbol]
             = Position(positions[symbol].size + Signed(side, qty), Float(price))]_vars

\* C17: a Fill report for an order that is already Completed is tolerated as a
\* duplicate -- it does not change the position ledger and does not invoke the
\* order's execute hook again.
C17_DuplicateFillIgnored ==
    [][\A order_id \in OrderIds, symbol \in Symbols, side \in Sides,
          price \in Prices, qty \in Qtys :
          (/\ fromApp(ExecType_FILL, order_id, symbol, side, price, qty)
           /\ order_id \in DOMAIN orders
           /\ objs[orders[order_id]].status = Completed)
          => /\ positions' = positions
             /\ objs'[orders[order_id]].executed = objs[orders[order_id]].executed]_vars

\* C18: whenever an execution report is processed for a client order id that a
\* NewOrderSingle of this gateway carried, the order registry already holds
\* that id -- no report for an order this gateway sent is dropped as unknown.
C18_RegisteredBeforeReport ==
    [][\A etype \in ExecTypes, order_id \in OrderIds, symbol \in Symbols,
          side \in Sides, price \in Prices, qty \in Qtys :
          (/\ \/ fromApp(etype, order_id, symbol, side, price, qty)
              \/ update_position_l166(etype, order_id, symbol, side, price, qty)
           /\ \E i \in 1..Len(sent) :
                 sent[i].type = "NewOrderSingle" /\ sent[i].ClOrdID = order_id)
          => order_id \in DOMAIN orders]_vars

\* C19: handling a news message, whatever its 10008 names and 58 values, leaves
\* the order registry and the orders, the position ledger, the notification
\* queue, the stop flag of the run loop and the settings, application and
\* session references unchanged.
C19_NewsChangesOnlySnapshot ==
    [][(\E body \in NewsBodies : fromApp_News(body))
       => UNCHANGED <<orders, objs, positions, queue, done, settings, app,
                      session_id, initiator>>]_vars

\* C20: when an execution report enqueues a notification for an order, the
\* notification of that order's submission is already in the queue or has been
\* polled -- _submit is not still on its way to enqueue it.
C20_SubmitNotifiedFirst ==
    [][\A etype \in ExecTypes, order_id \in OrderIds, symbol \in Symbols,
          side \in Sides, price \in Prices, qty \in Qtys :
          (/\ fromApp(etype, order_id, symbol, side, price, qty)
           /\ order_id \in DOMAIN orders
           /\ queue' = notify(queue, orders[order_id]))
          => ~(sub.pc = "l341" /\ sub.order = orders[order_id])]_vars

====
